---- MODULE Spec2Model ----
(***************************************************************************)
(* Opinion dynamics on a bounded 2D lattice (color_patches/model.py).      *)
(* ColorCell.determine_opinion / assume_opinion and ColorPatches.step /    *)
(* manipulate_random_cell, one action per call the step makes.             *)
(***************************************************************************)
EXTENDS Integers, Sequences, FiniteSets, TLC

VARIABLES
    width,            \* SingleGrid width  (first coordinate, "row" in the source)
    height,           \* SingleGrid height (second coordinate, "col" in the source)
    state,            \* ColorCell._state, per grid position
    next_state,       \* ColorCell._next_state, per grid position (None when unset)
    is_cult_leader,   \* ColorCell._is_cult_leader, per grid position
    steps,            \* Model._steps
    pc,               \* where the single thread of control is
    idx,              \* position of agents.do(...) in the agent list
    branch,           \* branch of the if/elif/else each cell took in this step
    twin              \* a second model built from the same grid with the same seed,
                      \* stepped alongside: its _state and _next_state per position
                      \* and whether self.random is at the same point in both

vars == <<width, height, state, next_state, is_cult_leader, steps, pc, idx, branch, twin>>

----------------------------------------------------------------------------
(* Bounds of the exploration *)

\* initial opinions explored: of the draws randrange(0, 16) the lowest MaxDraw
\* ones and the highest one
MaxDraw == 1
\* number of step() calls explored on the small grids (the constructor's call included)
MaxSteps == 201
\* number of step() calls explored on the larger lattices and on the scenario
LatticeSteps == 1
ScenarioSteps == 1
\* number of step() calls explored on the 1x6 strip: one past the first perturbation
StripSteps == 101
\* number of step() calls explored with a second model alongside
PairSteps == 1
\* number of three-opinion 3x3 grids the constructor is run on
TallyGrids == 1

\* grid shapes <<width, height>> explored
Shapes == {<<1, 1>>, <<1, 2>>, <<1, 3>>}
LatticeShapes == {<<2, 2>>}

----------------------------------------------------------------------------
(* Program constants *)

OPINIONS == <<0, 1, 2, 3, 4, 5, 6, 7, 8, 9, 10, 11, 12, 13, 14, 15, 16>>
None == -1
_cultist_influence == 4
INITIAL_DIST == 10000
PERIOD == 100
\* the constructor's one call of self.step()
CONSTRUCTOR_STEPS == 1
\* random.random() < (0.9 - dist * 0.2) and random.random() < 0.1, in tenths
LEADER_BASE == 9
LEADER_DECAY == 2
LOW_TIE == 1
\* self.random.randrange(0, 16)
RANDRANGE_STOP == 16

Abs(n) == IF n < 0 THEN -n ELSE n

----------------------------------------------------------------------------
(* The grid collaborator: SingleGrid(width, height, torus=False) *)

coords(w, h) == (0 .. w - 1) \X (0 .. h - 1)

Cells == coords(width, height)

\* variant: the neighbourhood of a grid built with torus=True
get_neighborhood_torus(pos, moore, include_center, radius) ==
    { q \in Cells :
        /\ \E dx \in -radius .. radius, dy \in -radius .. radius :
              /\ q = <<(pos[1] + dx) % width, (pos[2] + dy) % height>>
              /\ (moore \/ Abs(dx) + Abs(dy) <= radius)
        /\ (include_center \/ q /= pos) }

\* get_neighborhood(pos, moore, include_center, radius) on a non-toroidal grid
get_neighborhood(pos, moore, include_center, radius) ==
    { q \in Cells :
        /\ Abs(q[1] - pos[1]) <= radius
        /\ Abs(q[2] - pos[2]) <= radius
        /\ (moore \/ Abs(q[1] - pos[1]) + Abs(q[2] - pos[2]) <= radius)
        /\ (include_center \/ q /= pos) }

\* coord_iter(): every position, first coordinate outermost
coord_iter == [i \in 1 .. width * height |-> <<(i - 1) \div height, (i - 1) % height>>]

\* iter_neighbors(...): the neighbourhood in the grid's enumeration order
iter_neighbors(pos, moore, include_center, radius) ==
    SelectSeq(coord_iter, LAMBDA q : q \in get_neighborhood(pos, moore, include_center, radius))

\* variant: the tally iterated with include_center=True
_neighbor_iter_with_center(pos) == get_neighborhood(pos, TRUE, TRUE, 1)

\* self.model.grid.iter_neighbors((row, col), True)
_neighbor_iter(pos) == get_neighborhood(pos, TRUE, FALSE, 1)

\* variant: the leader scan iterated with include_center=True
_check_cultist_iter_with_center(pos) == iter_neighbors(pos, FALSE, TRUE, _cultist_influence)

\* self.model.grid.iter_neighbors((row, col), False, radius=_cultist_influence)
_check_cultist_iter(pos) == iter_neighbors(pos, FALSE, FALSE, _cultist_influence)

\* self.agents: the cells in the order the constructor created them
agents == coord_iter

----------------------------------------------------------------------------
(* ColorCell.determine_opinion *)

\* Counter(n.get_state() for n in _neighbor_iter): opinion |-> occurrences
neighbors_opinion(pos) ==
    LET polled == _neighbor_iter(pos)
    IN  [o \in { state[n] : n \in polled } |->
            Cardinality({ n \in polled : state[n] = o })]

\* neighbors_opinion.most_common(): the same pairs, highest count first
polled_opinions(pos) == neighbors_opinion(pos)

\* variant: the first test compares with polled_opinions[-1][1]
tied_opinions_from_last(pos) ==
    LET polled == polled_opinions(pos)
    IN  { o \in DOMAIN polled : \A p \in DOMAIN polled : polled[o] <= polled[p] }

\* neighbor[1] == polled_opinions[0][1]: the highest count
tied_opinions(pos) ==
    LET polled == polled_opinions(pos)
    IN  { o \in DOMAIN polled : \A p \in DOMAIN polled : polled[p] <= polled[o] }

\* variant: the second test is neighbor[1] < polled_opinions[0][1]
low_tied_opinions_below_top(pos) ==
    LET polled == polled_opinions(pos)
    IN  { o \in DOMAIN polled : \E p \in DOMAIN polled : polled[o] < polled[p] }

\* neighbor[1] == polled_opinions[-1][1]: the lowest count
low_tied_opinions(pos) ==
    LET polled == polled_opinions(pos)
    IN  { o \in DOMAIN polled : \A p \in DOMAIN polled : polled[o] <= polled[p] }

manhattan(p, q) == Abs(p[1] - q[1]) + Abs(p[2] - q[2])

\* the loop over _check_cultist_iter: dist is the minimum, the opinion is the
\* one of the leader enumerated last
RECURSIVE scan_leaders(_, _, _, _)
scan_leaders(pos, rest, dist, cult_leader_opinion) ==
    IF rest = <<>>
    THEN [dist |-> dist, cult_leader_opinion |-> cult_leader_opinion]
    ELSE LET neighbor == Head(rest)
             new_dist == manhattan(pos, neighbor)
         IN  IF is_cult_leader[neighbor]
             THEN scan_leaders(pos, Tail(rest),
                               IF new_dist < dist THEN new_dist ELSE dist,
                               state[neighbor])
             ELSE scan_leaders(pos, Tail(rest), dist, cult_leader_opinion)

leader_scan(pos) == scan_leaders(pos, _check_cultist_iter(pos), INITIAL_DIST, None)

\* Python truth value of cult_leader_opinion: None and 0 are false
truthy(v) == v /= None /\ v /= 0

\* some draw of random.random() in [0, 1) lies below 0.9 - dist * 0.2
leader_draw_possible(dist) == LEADER_BASE - dist * LEADER_DECAY > 0

\* random.choice(seq): every member, or IndexError on an empty list
choice(tag, seq) ==
    IF seq = {} THEN { <<"IndexError", None>> } ELSE { <<tag, o>> : o \in seq }

\* every <<branch, value>> the if/elif/else of determine_opinion can produce
outcomes(pos) ==
    LET scan == leader_scan(pos)
    IN  (IF truthy(scan.cult_leader_opinion) /\ leader_draw_possible(scan.dist)
         THEN { <<"leader", scan.cult_leader_opinion>> } ELSE {})
        \cup (IF LOW_TIE > 0 THEN choice("low", low_tied_opinions(pos)) ELSE {})
        \cup choice("tied", tied_opinions(pos))

\* variant: the opinion is updated in place while the cells are polled
determine_opinion_in_place ==
    /\ pc = "determine"
    /\ LET pos == agents[idx]
       IN  \E out \in outcomes(pos) :
             IF out[1] = "IndexError"
             THEN /\ pc' = "raised"
                  /\ UNCHANGED <<state, next_state, branch, idx, twin>>
             ELSE /\ next_state' = [next_state EXCEPT ![pos] = out[2]]
                  /\ state' = [state EXCEPT ![pos] = out[2]]
                  /\ branch' = [branch EXCEPT ![pos] = out[1]]
                  /\ IF idx = Len(agents)
                     THEN pc' = "assume" /\ idx' = 1
                     ELSE pc' = pc /\ idx' = idx + 1
    /\ UNCHANGED <<width, height, is_cult_leader, steps, twin>>

\* one call of agents.do("determine_opinion"), on the agent at idx
determine_opinion ==
    /\ pc = "determine"
    /\ LET pos == agents[idx]
       IN  \E out \in outcomes(pos) :
             IF out[1] = "IndexError"
             THEN /\ pc' = "raised"
                  /\ UNCHANGED <<next_state, branch, idx, twin>>
             ELSE /\ next_state' = [next_state EXCEPT ![pos] = out[2]]
                  /\ branch' = [branch EXCEPT ![pos] = out[1]]
                  /\ IF idx = Len(agents)
                     THEN pc' = "assume" /\ idx' = 1
                     ELSE pc' = pc /\ idx' = idx + 1
    /\ UNCHANGED <<width, height, state, is_cult_leader, steps, twin>>

----------------------------------------------------------------------------
(* ColorCell.assume_opinion *)

\* variant: assume_opinion without the cult-leader test
assumed_unguarded(pos) == next_state[pos]

\* variant: assume_opinion with the cult-leader test inverted
assumed_inverted(pos) == IF is_cult_leader[pos] THEN next_state[pos] ELSE state[pos]

\* the value assume_opinion leaves in _state
assumed(pos) == IF ~is_cult_leader[pos] THEN next_state[pos] ELSE state[pos]

\* one call of agents.do("assume_opinion"), on the agent at idx
assume_opinion ==
    /\ pc = "assume"
    /\ LET pos == agents[idx]
       IN  state' = [state EXCEPT ![pos] = assumed(pos)]
    /\ IF idx = Len(agents)
       THEN pc' = "advance" /\ idx' = 1
       ELSE pc' = pc /\ idx' = idx + 1
    /\ UNCHANGED <<width, height, next_state, is_cult_leader, steps, branch, twin>>

----------------------------------------------------------------------------
(* ColorPatches.step and manipulate_random_cell *)

\* step() is entered: by the constructor, then by the caller
step_begin(limit) ==
    /\ pc \in {"constructed", "running"}
    /\ steps < limit
    /\ pc' = "determine"
    /\ idx' = 1
    /\ UNCHANGED <<width, height, state, next_state, is_cult_leader, steps, branch, twin>>

\* variant: the period is tested before the counter is incremented
due_before_increment(n) == (n - 1) % PERIOD = 0

\* self._steps % 100 == 0
due(n) == n % PERIOD = 0

\* self._steps += 1 and the test of self._steps % 100
advance ==
    /\ pc = "advance"
    /\ steps' = steps + 1
    /\ pc' = IF due(steps') THEN "manipulate" ELSE "running"
    /\ branch' = [c \in Cells |-> "none"]
    /\ UNCHANGED <<width, height, state, next_state, is_cult_leader, idx, twin>>

\* variant: len(OPINIONS) taken for the last opinion
new_opinion_len == Len(OPINIONS)

\* variant: OPINIONS[0] taken for the last opinion
new_opinion_first == OPINIONS[1]

\* ColorCell.OPINIONS[-1]
new_opinion == OPINIONS[Len(OPINIONS)]

\* variant: the cell is flagged but agent._state is not assigned
manipulate_keeps_opinion ==
    /\ pc = "manipulate"
    /\ \E pos \in Cells :
         is_cult_leader' = [is_cult_leader EXCEPT ![pos] = TRUE]
    /\ pc' = "running"
    /\ UNCHANGED <<width, height, state, next_state, steps, idx, branch, twin>>

manipulate_random_cell ==
    /\ pc = "manipulate"
    /\ \E pos \in Cells :
         /\ state' = [state EXCEPT ![pos] = new_opinion]
         /\ is_cult_leader' = [is_cult_leader EXCEPT ![pos] = TRUE]
    /\ pc' = "running"
    /\ UNCHANGED <<width, height, next_state, steps, idx, branch, twin>>

----------------------------------------------------------------------------
(* ColorPatches.__init__, up to its call of step() *)

\* variant: randrange(0, 17), every index of OPINIONS
randrange_len == Len(OPINIONS)

\* the stop of self.random.randrange(0, 16)
randrange_stop == RANDRANGE_STOP

\* ColorCell.OPINIONS[self.random.randrange(0, 16)], the draws explored
initial_opinions ==
    { OPINIONS[d + 1] : d \in (0 .. MaxDraw - 1) \cup {randrange_stop - 1} }

constructed(shape, grid) ==
    /\ width = shape[1]
    /\ height = shape[2]
    /\ state = grid
    /\ next_state = [c \in coords(shape[1], shape[2]) |-> None]
    /\ is_cult_leader = [c \in coords(shape[1], shape[2]) |-> FALSE]
    /\ branch = [c \in coords(shape[1], shape[2]) |-> "none"]
    /\ steps = 0
    /\ pc = "constructed"
    /\ idx = 1

random_grids(w, h) == [coords(w, h) -> initial_opinions]

\* no second model
alone == <<>>

Init ==
    \E shape \in Shapes \cup LatticeShapes :
        \E grid \in random_grids(shape[1], shape[2]) :
            constructed(shape, grid) /\ twin = alone

\* step() calls explored: the small grids run past the second perturbation,
\* the larger lattices take their first steps only
horizon == IF <<width, height>> \in Shapes THEN MaxSteps ELSE LatticeSteps

Next ==
    \/ step_begin(horizon)
    \/ determine_opinion
    \/ assume_opinion
    \/ advance
    \/ manipulate_random_cell

Spec == Init /\ [][Next]_vars

\* the 3x3 scenario: every cell 0 except the centre, which is 5
scenario_grids(w, h) == { [c \in coords(w, h) |-> IF c = <<1, 1>> THEN 5 ELSE 0] }

InitScenario ==
    \E grid \in scenario_grids(3, 3) : constructed(<<3, 3>>, grid) /\ twin = alone

NextScenario ==
    \/ step_begin(ScenarioSteps)
    \/ determine_opinion
    \/ assume_opinion
    \/ advance

SpecScenario == InitScenario /\ [][NextScenario]_vars

\* the 1x6 strip started in consensus: its end cells are 5 apart, one more
\* than the influence radius
strip_grids(w, h) == { [c \in coords(w, h) |-> OPINIONS[1]] }

InitStrip ==
    \E grid \in strip_grids(1, 6) : constructed(<<1, 6>>, grid) /\ twin = alone

NextStrip ==
    \/ step_begin(StripSteps)
    \/ determine_opinion
    \/ assume_opinion
    \/ advance
    \/ manipulate_random_cell

SpecStrip == InitStrip /\ [][NextStrip]_vars

\* 3x3 grids whose centre has five neighbours of opinion 0, two of opinion i
\* and one of opinion i + 1
tally_grids(w, h) ==
    { [c \in coords(w, h) |->
         IF c = <<0, 0>> THEN OPINIONS[i + 2]
         ELSE IF c \in { <<0, 2>>, <<2, 2>> } THEN OPINIONS[i + 1]
         ELSE OPINIONS[1]] : i \in 1 .. TallyGrids }

InitTally ==
    \E grid \in tally_grids(3, 3) : constructed(<<3, 3>>, grid) /\ twin = alone

\* the constructor's step() only
NextTally ==
    \/ step_begin(CONSTRUCTOR_STEPS)
    \/ determine_opinion
    \/ assume_opinion
    \/ advance

SpecTally == InitTally /\ [][NextTally]_vars

----------------------------------------------------------------------------
(* Two models built from the same grid with the same seed, stepped together.
   self.random (lines 77, 79) is the seeded source of each model: while both
   have drawn from it the same number of times a choice from the same list
   gives the same member in both.  random.random() (lines 74, 76) is the
   module-level generator, which the model's seed does not set: its draws,
   and so the branch taken, are independent in the two models. *)

\* the second model after construction from the same seed
constructed_twin(grid) ==
    [state |-> grid, next_state |-> [c \in DOMAIN grid |-> None], sync |-> TRUE]

InitPair ==
    \E shape \in LatticeShapes :
        \E grid \in random_grids(shape[1], shape[2]) :
            constructed(shape, grid) /\ twin = constructed_twin(grid)

\* step() is entered in both models; followed while their grids agree
step_twice ==
    /\ twin.state = state
    /\ pc \in {"constructed", "running"}
    /\ steps < PairSteps
    /\ pc' = "determine"
    /\ idx' = 1
    /\ UNCHANGED <<width, height, state, next_state, is_cult_leader, steps, branch, twin>>

\* determine_opinion of the same cell in both models
determine_opinion_twice ==
    /\ pc = "determine"
    /\ LET pos == agents[idx]
       IN  \E out \in outcomes(pos), out2 \in outcomes(pos) :
             /\ out[1] /= "IndexError"
             /\ out2[1] /= "IndexError"
             /\ (twin.sync /\ out2[1] = out[1]) => out2[2] = out[2]
             /\ next_state' = [next_state EXCEPT ![pos] = out[2]]
             /\ branch' = [branch EXCEPT ![pos] = out[1]]
             /\ twin' = [twin EXCEPT !.next_state[pos] = out2[2],
                                     !.sync = twin.sync /\ out2[1] = out[1]]
             /\ IF idx = Len(agents)
                THEN pc' = "assume" /\ idx' = 1
                ELSE pc' = pc /\ idx' = idx + 1
    /\ UNCHANGED <<width, height, state, is_cult_leader, steps>>

\* assume_opinion of the same cell in both models
assume_opinion_twice ==
    /\ pc = "assume"
    /\ LET pos == agents[idx]
       IN  /\ state' = [state EXCEPT ![pos] = assumed(pos)]
           /\ twin' = [twin EXCEPT !.state[pos] =
                         IF is_cult_leader[pos] THEN twin.state[pos]
                         ELSE twin.next_state[pos]]
    /\ IF idx = Len(agents)
       THEN pc' = "advance" /\ idx' = 1
       ELSE pc' = pc /\ idx' = idx + 1
    /\ UNCHANGED <<width, height, next_state, is_cult_leader, steps, branch>>

NextPair ==
    \/ step_twice
    \/ determine_opinion_twice
    \/ assume_opinion_twice
    \/ advance

SpecPair == InitPair /\ [][NextPair]_vars

----------------------------------------------------------------------------
(* Properties *)

leaders == { c \in Cells : is_cult_leader[c] }

\* the up-to-8 cells adjacent to pos, stated on the coordinates
MooreOf(pos) ==
    { q \in Cells : q /= pos /\ Abs(q[1] - pos[1]) <= 1 /\ Abs(q[2] - pos[2]) <= 1 }

\* some cult leader other than pos lies within the influence radius of pos
LeaderWithin(pos) ==
    \E q \in leaders : q /= pos /\ manhattan(pos, q) <= _cultist_influence

\* step() is not in progress
Quiescent == pc \in {"constructed", "running"}

\* C1: in every reachable state every cell's committed opinion is an integer
\* of the closed range [0, 16], perturbation steps included.
C1_OpinionInRange ==
    \A c \in Cells : state[c] \in 0 .. Len(OPINIONS) - 1

C1_Witness ==
    /\ Quiescent
    /\ steps > PERIOD
    /\ \E c \in Cells : is_cult_leader[c] /\ state[c] = 16
    /\ \E c \in Cells : ~is_cult_leader[c] /\ state[c] = 16

\* C2: a cell that is a cult leader stays a cult leader and keeps its opinion
\* through every call a step makes, hence through every step(), the
\* perturbation that selects it again included.
C2_LeaderFrozen ==
    [][\A c \in Cells :
         is_cult_leader[c] => is_cult_leader'[c] /\ state'[c] = state[c]]_vars

C2_Witness ==
    /\ Quiescent
    /\ steps > PERIOD
    /\ \E c \in Cells :
         /\ is_cult_leader[c]
         /\ next_state[c] /= None
         /\ next_state[c] /= state[c]

\* C3: within a step no assume_opinion runs before every determine_opinion
\* has finished: while the cells are polled no committed opinion and no leader
\* flag changes, the cells are polled one by one from the first to the last,
\* and the commit phase is entered only from the last poll.
C3_TwoPhase ==
    [][/\ pc = "determine" => state' = state /\ is_cult_leader' = is_cult_leader
       /\ state' /= state => pc \in {"assume", "manipulate"}
       /\ (pc' = "determine" /\ pc /= "determine") => idx' = 1
       /\ (pc' = "determine" /\ pc = "determine") => idx' = idx + 1
       /\ (pc' = "assume" /\ pc /= "assume") => pc = "determine" /\ idx = Len(agents)
      ]_vars

C3_Witness ==
    /\ pc = "determine"
    /\ idx > 1
    /\ \E i \in 1 .. idx - 1 :
         /\ branch[agents[i]] /= "none"
         /\ next_state[agents[i]] /= state[agents[i]]
         /\ \E n \in MooreOf(agents[i]) : state[n] = next_state[agents[i]]

\* C4: a step designates a leader exactly when the counter after its
\* increment is a multiple of 100, and then one cell; the leader set changes
\* at no other time; the number of leaders never exceeds floor(steps / 100).
C4_Cadence ==
    /\ [](Cardinality(leaders) <= steps \div 100)
    /\ [][/\ pc = "advance" => (pc' = "manipulate" <=> (steps + 1) % 100 = 0)
          /\ pc' = "manipulate" => pc = "advance"
          /\ pc = "manipulate" =>
               /\ steps % 100 = 0
               /\ \E c \in Cells : is_cult_leader'[c] /\ leaders' = leaders \cup {c}
          /\ pc /= "manipulate" => is_cult_leader' = is_cult_leader
         ]_vars

C4_Witness ==
    /\ pc = "running"
    /\ steps = 2 * PERIOD
    /\ Cardinality(leaders) = 2

C6_Majority ==
    [][(pc = "determine" /\ pc' /= "raised") =>
         LET c == agents[idx]
         IN  \A V \in 0 .. 16 :
               ( /\ ~is_cult_leader[c]
                 /\ MooreOf(c) /= {}
                 /\ \A n \in MooreOf(c) : state[n] = V
                 /\ ~LeaderWithin(c) )
               => /\ tied_opinions(c) = {V}
                  /\ branch'[c] /= "low" => next_state'[c] = V
      ]_vars

C6_Witness ==
    /\ pc = "determine"
    /\ \E i \in 1 .. idx - 1 :
         LET c == agents[i]
         IN  /\ branch[c] = "tied"
             /\ ~is_cult_leader[c]
             /\ ~LeaderWithin(c)
             /\ Cardinality(MooreOf(c)) >= 3
             /\ \A n \in MooreOf(c) : state[n] = next_state[c]
             /\ state[c] /= next_state[c]

\* C7: on the 3x3 grid that is 0 everywhere but 5 at the centre, a step in
\* which every cell took neither the leader branch nor the low-tie branch
\* leaves all nine cells with opinion 0.
C7_Scenario ==
    ( /\ steps = 0
      /\ pc = "advance"
      /\ \A c \in Cells : branch[c] = "tied" )
    => \A c \in Cells : state[c] = 0

C7_Witness ==
    /\ steps = 0
    /\ pc = "advance"
    /\ Cardinality(Cells) = 9
    /\ \A c \in Cells : branch[c] = "tied"
    /\ next_state[<<1, 1>>] = 0
    /\ state[<<1, 1>>] = 0

\* C8: a cell without neighbours (1x1 grid) goes through determine_opinion
\* without failure and keeps its opinion through the step.
C8_EmptyTallyGuarded ==
    \A c \in Cells : _neighbor_iter(c) = {} => pc /= "raised"

Corners == { c \in Cells : c[1] \in {0, width - 1} /\ c[2] \in {0, height - 1} }

\* C9: on a non-wrapping grid with width, height >= 2 the tally of a corner
\* cell runs over exactly 3 cells, and every call of determine_opinion, on
\* corner, border and inner cells alike, finds both tie sets non-empty and
\* does not fail.
C9_Boundary ==
    [][(width >= 2 /\ height >= 2 /\ pc = "determine") =>
         LET c == agents[idx]
         IN  /\ c \in Corners => Cardinality(_neighbor_iter(c)) = 3
             /\ tied_opinions(c) /= {}
             /\ low_tied_opinions(c) /= {}
             /\ pc' /= "raised"
      ]_vars

C9_Witness ==
    /\ width >= 2
    /\ height >= 2
    /\ pc = "advance"
    /\ \A c \in Cells : branch[c] \in {"low", "tied"}
    /\ \E c \in Corners : state[c] = 5

\* C10 as stated: outside a step every cell, leader or not, has its pending
\* opinion unset or equal to its committed opinion.
C10_PendingMatchesAll ==
    Quiescent =>
        \A c \in Cells : next_state[c] = None \/ next_state[c] = state[c]

\* C10 amended: outside a step every cell that is not a cult leader has its
\* pending opinion unset or equal to its committed opinion.
C10_PendingMatchesNonLeader ==
    Quiescent =>
        \A c \in Cells :
            ~is_cult_leader[c] => next_state[c] = None \/ next_state[c] = state[c]

C10_Witness ==
    /\ pc = "running"
    /\ \E c \in Cells : is_cult_leader[c] /\ next_state[c] /= state[c]
    /\ \E c \in Cells : ~is_cult_leader[c] /\ next_state[c] = state[c] /\ state[c] /= 16

\* C11: two models built from the same grid with the same seed hold the same
\* opinion in every cell after every completed step.
C11_SameSeedSameStates ==
    (twin /= alone /\ pc = "running") => twin.state = state

\* C12: a determine_opinion call on a cell changes that cell's pending opinion
\* only: every committed opinion, every leader flag, every other cell's
\* pending opinion and the step counter are left as they were.
C12_DetermineFrame ==
    [][(pc = "determine" /\ pc' /= "raised") =>
         /\ state' = state
         /\ is_cult_leader' = is_cult_leader
         /\ steps' = steps
         /\ \A c \in Cells : c /= agents[idx] => next_state'[c] = next_state[c]
      ]_vars

C12_Witness ==
    /\ pc = "determine"
    /\ steps >= 1
    /\ idx > 1
    /\ idx < Len(agents)
    /\ next_state[agents[1]] /= state[agents[1]]
    /\ branch[agents[idx + 1]] = "none"
    /\ next_state[agents[idx + 1]] = state[agents[idx + 1]]

C14_CommitDefined ==
    Cardinality(Cells) >= 2 =>
        /\ \A c \in Cells : state[c] /= None
        /\ pc \in {"assume", "advance"} =>
             \A c \in Cells : branch[c] /= "none" /\ next_state[c] /= None
        /\ pc = "assume" =>
             \A i \in 1 .. idx - 1 :
                 ~is_cult_leader[agents[i]] => state[agents[i]] = next_state[agents[i]]
        /\ pc = "advance" =>
             \A c \in Cells : ~is_cult_leader[c] => state[c] = next_state[c]

C14_Witness ==
    /\ pc = "advance"
    /\ leaders /= {}
    /\ \E c \in Cells : ~is_cult_leader[c] /\ branch[c] = "low" /\ state[c] = next_state[c]
    /\ \E c \in Cells : ~is_cult_leader[c] /\ branch[c] = "leader" /\ state[c] = 16

\* the cult leaders other than pos within the influence radius of pos
LeadersWithin(pos) ==
    { q \in leaders : q /= pos /\ manhattan(pos, q) <= _cultist_influence }

\* those of them at the least Manhattan distance
NearestLeaders(pos) ==
    { q \in LeadersWithin(pos) :
        \A r \in LeadersWithin(pos) : manhattan(pos, q) <= manhattan(pos, r) }

\* occurrences of opinion o among the Moore neighbours of pos
Frequency(pos, o) == Cardinality({ n \in MooreOf(pos) : state[n] = o })

Observed(pos) == { state[n] : n \in MooreOf(pos) }

Highest(pos) ==
    { o \in Observed(pos) : \A p \in Observed(pos) : Frequency(pos, p) <= Frequency(pos, o) }

Lowest(pos) ==
    { o \in Observed(pos) : \A p \in Observed(pos) : Frequency(pos, o) <= Frequency(pos, p) }

Between(pos) == Observed(pos) \ (Highest(pos) \cup Lowest(pos))

\* C15: when the leader branch is not taken the pending opinion written is
\* one of the most frequent opinions among the Moore neighbours, or, in the
\* low-tie branch only, one of the least frequent ones; an opinion whose
\* frequency lies strictly between the two is never written.
C15_HighestOrLowest ==
    [][(pc = "determine" /\ pc' /= "raised") =>
         LET c == agents[idx]
         IN  /\ tied_opinions(c) = Highest(c)
             /\ low_tied_opinions(c) = Lowest(c)
             /\ branch'[c] = "low" => next_state'[c] \in Lowest(c)
             /\ branch'[c] = "tied" => next_state'[c] \in Highest(c)
             /\ branch'[c] /= "leader" => next_state'[c] \notin Between(c)
      ]_vars

C15_Witness ==
    /\ pc = "assume"
    /\ idx = 1
    /\ Cardinality(Observed(<<1, 1>>)) = 3
    /\ Between(<<1, 1>>) /= {}
    /\ ~is_cult_leader[<<1, 1>>]
    /\ branch[<<1, 1>>] = "low"
    /\ next_state[<<1, 1>>] \in Lowest(<<1, 1>>)
    /\ \E c \in Cells : branch[c] = "tied" /\ Cardinality(Observed(c)) >= 2

\* C16: the leader branch is taken for a cell only when a cult leader other
\* than the cell lies within Manhattan distance 4 of it; the distance the
\* threshold is computed from is the least distance to such a leader, it lies
\* in 1..4 and 0.9 - 0.2*dist is positive there; with every leader farther
\* than 4 away the cell takes its opinion from its Moore neighbours.
C16_LeaderBranchInRadius ==
    [][(pc = "determine" /\ pc' /= "raised") =>
         LET c    == agents[idx]
             near == LeadersWithin(c)
             scan == leader_scan(c)
         IN  /\ branch'[c] = "leader" =>
                  /\ near /= {}
                  /\ \A q \in near : scan.dist <= manhattan(c, q)
                  /\ \E q \in near : scan.dist = manhattan(c, q)
                  /\ scan.dist \in 1 .. _cultist_influence
                  /\ LEADER_BASE - LEADER_DECAY * scan.dist > 0
             /\ near /= {} => <<"leader", 16>> \in outcomes(c)
             /\ near = {} =>
                  /\ scan.dist = INITIAL_DIST
                  /\ next_state'[c] \in { state[n] : n \in MooreOf(c) }
      ]_vars

C16_Witness ==
    /\ pc = "advance"
    /\ Cardinality(Cells) = 6
    /\ leaders = { <<0, 0>> }
    /\ branch[<<0, 4>>] = "leader"
    /\ state[<<0, 4>>] = 16
    /\ branch[<<0, 5>>] \in {"low", "tied"}
    /\ state[<<0, 5>>] = 0
    /\ state[<<0, 1>>] = 0

C19_MaxOnlyWithLeader ==
    /\ (\E c \in Cells : state[c] = 16) => leaders /= {}
    /\ steps < 100 => \A c \in Cells : state[c] /= 16 /\ next_state[c] /= 16

C19_Witness ==
    /\ pc = "manipulate"
    /\ steps = 100
    /\ \E c \in Cells : state[c] = 15
    /\ \A c \in Cells : state[c] /= 16

Range(f) == { f[c] : c \in DOMAIN f }

\* C20: the pending opinion a call writes is held, before the step, by a
\* Moore neighbour of the cell or by a cult leader within its radius; a commit
\* copies the pending opinion of a non-leader cell and nothing else; so the
\* opinions on the grid gain no value in the determine and commit phases, and
\* gain at most 16 in the perturbation.
C20_Closure ==
    [][/\ (pc = "determine" /\ pc' /= "raised") =>
            LET c == agents[idx]
            IN  /\ next_state'[c] \in
                      { state[n] : n \in MooreOf(c) } \cup { state[q] : q \in LeadersWithin(c) }
                /\ (leaders = {} /\ Cardinality(Range(state)) = 1) =>
                      next_state'[c] \in Range(state)
                /\ pc' = "assume" => Range(next_state') \subseteq Range(state)
       /\ pc = "assume" =>
            /\ \A c \in Cells :
                 state'[c] = IF c = agents[idx] /\ ~is_cult_leader[c]
                             THEN next_state[c] ELSE state[c]
            /\ Range(state') \subseteq Range(state) \cup Range(next_state)
       /\ pc = "manipulate" => Range(state') \subseteq Range(state) \cup {16}
       /\ pc \notin {"assume", "manipulate"} => state' = state
      ]_vars

C20_Witness ==
    /\ pc = "running"
    /\ steps > PERIOD
    /\ Cardinality(Cells) = 3
    /\ Cardinality(leaders) = 1
    /\ Range(state) = {16}

====
